---- MODULE Spec2Model ----
(***************************************************************************)
(* Model of the /convert handler of src/calibre-service.py: a Flask view   *)
(* that resolves two caller-supplied paths against BOOKS_BASE, builds an   *)
(* ebook-convert command line, runs it under a timeout and classifies the  *)
(* outcome.  Strings that the code takes apart (paths, command tokens) are *)
(* sequences of one-character strings; messages are plain strings.         *)
(***************************************************************************)
EXTENDS Integers, Sequences, FiniteSets, TLC

\* ------------------------------------------------------------------ bounds
MaxRequests == 2
MaxSize == 2
MaxOptions == 2

Sizes == 1..MaxSize

\* ------------------------------------------------- python string helpers
UpperCs == <<"A","B","C","D","E","F","G","H","I","J","K","L","M",
             "N","O","P","Q","R","S","T","U","V","W","X","Y","Z">>
LowerCs == <<"a","b","c","d","e","f","g","h","i","j","k","l","m",
             "n","o","p","q","r","s","t","u","v","w","x","y","z">>

\* str.lower(), one character
LowerChar(c) ==
  IF \E i \in 1..Len(UpperCs) : UpperCs[i] = c
  THEN LowerCs[CHOOSE i \in 1..Len(UpperCs) : UpperCs[i] = c]
  ELSE c

\* str.lower()
Lower(s) == [i \in 1..Len(s) |-> LowerChar(s[i])]

\* str.rfind(c) + 1: position (1-based) of the last c in s, 0 when absent
RFind(s, c) ==
  IF \E i \in 1..Len(s) : s[i] = c
  THEN CHOOSE i \in 1..Len(s) : s[i] = c /\ \A j \in (i+1)..Len(s) : s[j] # c
  ELSE 0

\* posixpath.join(a, p)
Join(a, p) ==
  IF Len(p) > 0 /\ p[1] = "/" THEN p
  ELSE IF Len(a) = 0 \/ a[Len(a)] = "/" THEN a \o p
  ELSE a \o <<"/">> \o p

RECURSIVE RStripSlash(_)
RStripSlash(s) ==
  IF Len(s) > 0 /\ s[Len(s)] = "/" THEN RStripSlash(SubSeq(s, 1, Len(s) - 1))
  ELSE s

\* posixpath.dirname(p)
Dirname(p) ==
  LET head == SubSeq(p, 1, RFind(p, "/"))
  IN IF Len(head) > 0 /\ \E i \in 1..Len(head) : head[i] # "/"
     THEN RStripSlash(head)
     ELSE head

\* os.path.splitext(p)[1]: the extension starts at the last dot of the
\* last component, unless only dots precede it in that component
SplitextExt(p) ==
  LET sepIndex == RFind(p, "/")
      dotIndex == RFind(p, ".")
  IN IF dotIndex > sepIndex
        /\ \E k \in (sepIndex + 1)..(dotIndex - 1) : p[k] # "."
     THEN SubSeq(p, dotIndex, Len(p))
     ELSE <<>>

Digits == <<"0","1","2","3","4","5","6","7","8","9">>

\* str(n) for a non-negative int
RECURSIVE IntStr(_)
IntStr(n) ==
  IF n < 10 THEN <<Digits[n + 1]>>
  ELSE IntStr(n \div 10) \o <<Digits[(n % 10) + 1]>>

\* ----------------------------------------------------------- JSON values
\* A decoded JSON value as Python sees it; t is the Python type.
JNull      == [t |-> "NoneType", s |-> <<>>, n |-> 0, b |-> FALSE, e |-> <<>>]
JStr(s)    == [t |-> "str",  s |-> s,    n |-> 0, b |-> FALSE, e |-> <<>>]
JNum(n)    == [t |-> "int",  s |-> <<>>, n |-> n, b |-> FALSE, e |-> <<>>]
JBool(b)   == [t |-> "bool", s |-> <<>>, n |-> 0, b |-> b,     e |-> <<>>]
\* a JSON object: e is the sequence of <<key, value>> in insertion order
JObj(e)    == [t |-> "dict", s |-> <<>>, n |-> 0, b |-> FALSE, e |-> e]

\* dict.get(key, default)
Get(d, key, default) ==
  IF \E i \in 1..Len(d.e) : d.e[i][1] = key
  THEN d.e[CHOOSE i \in 1..Len(d.e) : d.e[i][1] = key][2]
  ELSE default

\* Truthy with the test of line 51 written `is None`: only None is rejected
TruthyNotNone(v) == v.t # "NoneType"

\* Python truth value, as tested by `not x`
Truthy(v) ==
  CASE v.t = "NoneType" -> FALSE
    [] v.t = "str"  -> Len(v.s) > 0
    [] v.t = "int"  -> v.n # 0
    [] v.t = "bool" -> v.b
    [] v.t = "dict" -> Len(v.e) > 0

\* str(value)
PyStr(v) ==
  CASE v.t = "NoneType" -> <<"N", "o", "n", "e">>
    [] v.t = "str"  -> v.s
    [] v.t = "int"  -> IntStr(v.n)
    [] v.t = "bool" -> IF v.b THEN <<"T", "r", "u", "e">> ELSE <<"F", "a", "l", "s", "e">>
    [] v.t = "dict" -> <<"{", "}">>

\* IsNotTrue with the test of line 88 written `value != True`: in Python
\* 1 == True, so the number 1 is taken for a bare flag too
IsNotEqualTrue(v) == ~((v.t = "bool" /\ v.b) \/ (v.t = "int" /\ v.n = 1))

\* `value is not True`: identity with the True singleton
IsNotTrue(v) == ~(v.t = "bool" /\ v.b)

\* -------------------------------------------------------------- filesystem
\* The shared filesystem: absolute path |-> [kind, size].
Dir       == [kind |-> "dir",  size |-> 0]
File(sz)  == [kind |-> "file", size |-> sz]

\* os.path.exists(p)
Exists(f, p) == p \in DOMAIN f

IsDir(f, p) == p \in DOMAIN f /\ f[p].kind = "dir"

\* p and every proper ancestor directory of the absolute path p, below "/"
Ancestors(p) ==
  {SubSeq(p, 1, i - 1) : i \in {j \in 2..Len(p) : p[j] = "/"}} \cup {p}

\* os.makedirs(name, exist_ok=True): TRUE when it raises (a component of
\* name exists and is not a directory)
MakedirsRaises(f, name) == \E q \in Ancestors(name) : Exists(f, q) /\ ~IsDir(f, q)

\* the filesystem after a successful os.makedirs(name, exist_ok=True)
Makedirs(f, name) ==
  [q \in DOMAIN f \cup Ancestors(name) |-> IF q \in DOMAIN f THEN f[q] ELSE Dir]

\* the converter (re)writes the file at path p with sz bytes
WriteFile(f, p, sz) ==
  [q \in DOMAIN f \cup {p} |-> IF q = p THEN File(sz) ELSE f[q]]

\* ---------------------------------------------------------------- responses
NoText == "<absent>"
NoSize == -1

Response(status, error, arg, details, stdout) ==
  [status |-> status, error |-> error, arg |-> arg, details |-> details,
   stdout |-> stdout, success |-> FALSE, file_size |-> NoSize,
   source_path |-> <<>>, target_path |-> <<>>, message |-> NoText]

NoResponse == Response(0, NoText, <<>>, NoText, NoText)

\* lines 52-54
BadRequest == Response(400, "source_path and target_path are required", <<>>, NoText, NoText)
\* lines 74-76
SourceNotFound(source_path) == Response(404, "Source file not found: ", source_path, NoText, NoText)
\* ConversionFailed with the two captured streams exchanged
ConversionFailedSwapped(result) ==
  Response(500, "Conversion failed", <<>>, result.stdout, result.stderr)

\* lines 112-116
ConversionFailed(result) == Response(500, "Conversion failed", <<>>, result.stderr, result.stdout)
\* lines 120-122
OutputMissing == Response(500, "Conversion completed but output file not found", <<>>, NoText, NoText)
\* lines 136-138
TimedOut == Response(504, "Conversion timed out (max 5 minutes)", <<>>, NoText, NoText)
\* lines 140-142: str(e) of the caught exception
GenericFault(e) == Response(500, e, <<>>, NoText, NoText)
\* lines 127-133
Success(source_path, target_path, file_size) ==
  [status |-> 200, error |-> NoText, arg |-> <<>>, details |-> NoText,
   stdout |-> NoText, success |-> TRUE, file_size |-> file_size,
   source_path |-> source_path, target_path |-> target_path,
   message |-> "Conversion completed successfully"]

\* ------------------------------------------------------------------- state
VARIABLES
  BOOKS_BASE,  \* line 18: module-level base directory
  fs,          \* the filesystem shared by all requests
  pc,          \* per worker thread: position in convert()
  req,         \* per worker: request.json of the request being handled
  loc,         \* per worker: the locals of convert()
  result,      \* per worker: the CompletedProcess of subprocess.run
  resp,        \* per worker: the response returned
  served,      \* per worker: requests received so far
  spawned,     \* per worker: child processes started for this request
  written,     \* per worker: size last written by this request's child
  hist,        \* per worker: stages of convert() entered, in order
  enc_in,      \* the command builder taken alone: its arguments
  enc_out      \* the command builder taken alone: its result

vars == <<BOOKS_BASE, fs, pc, req, loc, result, resp, served, spawned,
          written, hist, enc_in, enc_out>>

handlerVars == <<BOOKS_BASE, fs, pc, req, loc, result, resp, served, spawned,
                 written, hist>>

Workers == {"w1", "w2"}

\* line 18: os.environ.get('CALIBRE_LIBRARY_PATH', '/books')
DefaultBooksBase == <<"/", "b", "o", "o", "k", "s">>

\* os.environ of the service process
OsEnviron == ("PATH" :> "/usr/bin") @@ ("HOME" :> "/root")

\* the library before any request: one book
InitialFs ==
  (<<"/">> :> Dir) @@ (<<"/", "b", "o", "o", "k", "s">> :> Dir) @@ (<<"/", "b", "o", "o", "k", "s", "/", "a", ".", "e", "p", "u", "b">> :> File(1))

NoResult == [returncode |-> -1, stdout |-> NoText, stderr |-> NoText, exited |-> FALSE]

NoLocals ==
  [source_path |-> JNull, target_path |-> JNull, options |-> JNull,
   full_source |-> <<>>, full_target |-> <<>>, cmd |-> <<>>, env |-> OsEnviron]

\* ------------------------------------------------------------------ inputs
Absent == "absent"

SourceChoices ==
  {<<Absent, JNull>>, <<"given", JNull>>, <<"given", JStr(<<>>)>>,
   <<"given", JStr(<<"a", ".", "e", "p", "u", "b">>)>>, <<"given", JStr(<<"m", ".", "e", "p", "u", "b">>)>>,
   <<"given", JStr(<<"a", ".", "e", "p", "u", "b", "/", "x">>)>>, <<"given", JNum(7)>>}

TargetChoices ==
  {<<Absent, JNull>>, <<"given", JStr(<<>>)>>,
   <<"given", JStr(<<"b", ".", "p", "d", "f">>)>>, <<"given", JStr(<<"B", ".", "P", "D", "F">>)>>,
   <<"given", JStr(<<".", "p", "d", "f">>)>>, <<"given", JStr(<<"b", ".", "m", "o", "b", "i">>)>>,
   <<"given", JStr(<<"d", ".", "p", "d", "f", "/", "c">>)>>, <<"given", JStr(<<"a", ".", "e", "p", "u", "b", "/", "y">>)>>}

ExampleOptions ==
  JObj(<< <<<<"f", "o", "r", "m", "a", "t">>, JStr(<<"e", "p", "u", "b">>)>>, <<<<"v", "e", "r", "b", "o", "s", "e">>, JBool(TRUE)>> >>)

OptionChoices ==
  {<<Absent, JNull>>, <<"given", ExampleOptions>>, <<"given", JStr(<<"x">>)>>}

Entry(key, choice) == IF choice[1] = Absent THEN <<>> ELSE << <<key, choice[2]>> >>

Body(sc, tc, oc) ==
  JObj(Entry(<<"s", "o", "u", "r", "c", "e", "_", "p", "a", "t", "h">>, sc) \o Entry(<<"t", "a", "r", "g", "e", "t", "_", "p", "a", "t", "h">>, tc)
       \o Entry(<<"o", "p", "t", "i", "o", "n", "s">>, oc))

\* request bodies of the sequential specification
Bodies ==
  {Body(sc, tc, oc) : sc \in SourceChoices, tc \in TargetChoices,
                      oc \in OptionChoices} \cup {JNull}

\* request bodies of the concurrent specification: conversions whose paths
\* overlap (one's target is the other's source or target) and ones that do not
ConcBodies ==
  {Body(<<"given", JStr(s)>>, <<"given", JStr(t)>>, <<Absent, JNull>>) :
     <<s, t>> \in {<<<<"a", ".", "e", "p", "u", "b">>, <<"b", ".", "p", "d", "f">>>>, <<<<"b", ".", "p", "d", "f">>, <<"c", ".", "t", "x", "t">>>>,
                    <<<<"a", ".", "e", "p", "u", "b">>, <<"d", "/", "c", ".", "t", "x", "t">>>>, <<<<"d">>, <<"e", ".", "t", "x", "t">>>>,
                    <<<<"a", ".", "e", "p", "u", "b">>, <<"b", ".", "p", "d", "f", "/", "z">>>>}}

\* what the child process may report when it ends
ExitCodes == {0, 1}
CapturedOutputs == {[stdout |-> "", stderr |-> ""], [stdout |-> "out", stderr |-> "err"]}

\* -------------------------------------------------------- command building
DisplayHarness ==
  <<<<"x", "v", "f", "b", "-", "r", "u", "n">>, <<"-", "a">>, <<"-", "-", "s", "e", "r", "v", "e", "r", "-", "a", "r", "g", "s", "=", "-", "s", "c", "r", "e", "e", "n", " ", "0", " ", "1", "0", "2", "4", "x", "7", "6", "8", "x", "2", "4">>>>

\* lines 86-89: the tokens of one options entry
OptionTokens(key, value) ==
  <<<<"-", "-">> \o key>> \o (IF IsNotTrue(value) THEN <<PyStr(value)>> ELSE <<>>)

\* lines 86-89: the loop over options.items()
RECURSIVE EncodeOptions(_)
EncodeOptions(items) ==
  IF items = <<>> THEN <<>>
  ELSE OptionTokens(items[1][1], items[1][2]) \o EncodeOptions(Tail(items))

\* lines 83-89
BuildCmd(full_source, full_target, options) ==
  <<<<"e", "b", "o", "o", "k", "-", "c", "o", "n", "v", "e", "r", "t">>, full_source, full_target>> \o EncodeOptions(options.e)

\* NeedsDisplay without the .lower() of line 92
NeedsDisplayCaseSensitive(full_target) == SplitextExt(full_target) = <<".", "p", "d", "f">>

\* line 92-94: the test that selects the display harness
NeedsDisplay(full_target) == Lower(SplitextExt(full_target)) = <<".", "p", "d", "f">>

\* lines 94-95
WrapCmd(cmd, full_target) ==
  IF NeedsDisplay(full_target) THEN DisplayHarness \o cmd ELSE cmd

\* lines 93-97
ChildEnv(environ, full_target) ==
  IF NeedsDisplay(full_target)
  THEN [k \in DOMAIN environ \cup {"QTWEBENGINE_CHROMIUM_FLAGS"} |->
          IF k = "QTWEBENGINE_CHROMIUM_FLAGS" THEN "--no-sandbox --disable-gpu"
          ELSE environ[k]]
  ELSE environ

\* the faults convert() can meet, each caught by `except Exception` (139-142)
\* line 47: request.json is None, `data.get` raises AttributeError
NullBodyFault == GenericFault("'NoneType' object has no attribute 'get'")
\* lines 57-58: os.path.join of a non-string raises TypeError
PathTypeFault == GenericFault("expected str, bytes or os.PathLike object, not int")
\* line 67: os.listdir of a regular file raises NotADirectoryError
ListdirFault == GenericFault("[Errno 20] Not a directory")
\* line 80: os.makedirs meets a regular file
MakedirsFault(f, target_dir) ==
  GenericFault(IF Exists(f, target_dir) THEN "[Errno 17] File exists"
               ELSE "[Errno 20] Not a directory")
\* line 86: options is not a dict, `options.items` raises AttributeError
OptionsFault == GenericFault("object has no attribute 'items'")
\* line 100: the executable cannot be started, Popen raises OSError
SpawnFault == GenericFault("[Errno 2] No such file or directory: 'ebook-convert'")
\* line 125: os.path.getsize of a missing file raises OSError
GetsizeFault == GenericFault("[Errno 2] No such file or directory")

\* ----------------------------------------------------------------- handler
\* return jsonify(...) / the except clauses: the request ends with response r
Return(w, r) ==
  /\ pc' = [pc EXCEPT ![w] = "done"]
  /\ resp' = [resp EXCEPT ![w] = r]

Goto(w, label) ==
  /\ pc' = [pc EXCEPT ![w] = label]
  /\ resp' = resp

Enter(w, stage) == hist' = [hist EXCEPT ![w] = Append(@, stage)]

\* a POST /convert arrives at worker w with JSON body `body`
Accept(w, body) ==
  /\ pc[w] = "idle"
  /\ served[w] < MaxRequests
  /\ served' = [served EXCEPT ![w] = @ + 1]
  /\ req' = [req EXCEPT ![w] = body]
  /\ Goto(w, "validate")
  /\ UNCHANGED <<BOOKS_BASE, fs, loc, result, spawned, written, hist>>

Receive(w) == \E body \in Bodies : Accept(w, body)

ReceiveConc(w) == \E body \in ConcBodies : served[w] = 0 /\ Accept(w, body)

\* lines 46-54: read the fields, reject a request without both paths
Validate(w) ==
  /\ pc[w] = "validate"
  /\ Enter(w, "validate")
  /\ IF req[w].t # "dict"
     THEN /\ Return(w, NullBodyFault)
          /\ loc' = loc
     ELSE LET source_path == Get(req[w], <<"s", "o", "u", "r", "c", "e", "_", "p", "a", "t", "h">>, JNull)
              target_path == Get(req[w], <<"t", "a", "r", "g", "e", "t", "_", "p", "a", "t", "h">>, JNull)
              options     == Get(req[w], <<"o", "p", "t", "i", "o", "n", "s">>, JObj(<<>>))
          IN /\ loc' = [loc EXCEPT ![w].source_path = source_path,
                                   ![w].target_path = target_path,
                                   ![w].options = options]
             /\ IF ~Truthy(source_path) \/ ~Truthy(target_path)
                THEN Return(w, BadRequest)
                ELSE Goto(w, "resolve")
  /\ UNCHANGED <<BOOKS_BASE, fs, req, result, served, spawned, written>>

\* ResolvePaths with full_source and full_target kept in module-level
\* variables, which every worker thread then reads
ResolvePathsShared(w) ==
  /\ pc[w] = "resolve"
  /\ IF loc[w].source_path.t # "str" \/ loc[w].target_path.t # "str"
     THEN /\ Return(w, PathTypeFault)
          /\ loc' = loc
     ELSE /\ loc' = [v \in Workers |->
                      [loc[v] EXCEPT
                         !.full_source = Join(BOOKS_BASE, loc[w].source_path.s),
                         !.full_target = Join(BOOKS_BASE, loc[w].target_path.s)]]
          /\ Goto(w, "list_source_dir")
  /\ UNCHANGED <<BOOKS_BASE, fs, req, result, served, spawned, written, hist>>

\* lines 56-58: os.path.join(BOOKS_BASE, ...) for both paths
ResolvePaths(w) ==
  /\ pc[w] = "resolve"
  /\ IF loc[w].source_path.t # "str" \/ loc[w].target_path.t # "str"
     THEN /\ Return(w, PathTypeFault)
          /\ loc' = loc
     ELSE /\ loc' = [loc EXCEPT
                       ![w].full_source = Join(BOOKS_BASE, loc[w].source_path.s),
                       ![w].full_target = Join(BOOKS_BASE, loc[w].target_path.s)]
          /\ Goto(w, "list_source_dir")
  /\ UNCHANGED <<BOOKS_BASE, fs, req, result, served, spawned, written, hist>>

\* lines 60-70: the debugging listing of the source directory
ListSourceDir(w) ==
  /\ pc[w] = "list_source_dir"
  /\ Enter(w, "check_source")
  /\ LET source_dir == Dirname(loc[w].full_source)
     IN IF Exists(fs, source_dir) /\ ~IsDir(fs, source_dir)
        THEN Return(w, ListdirFault)
        ELSE Goto(w, "check_source")
  /\ UNCHANGED <<BOOKS_BASE, fs, req, loc, result, served, spawned, written>>

\* CheckSource without the test of line 73
CheckSourceSkipped(w) ==
  /\ pc[w] = "check_source"
  /\ Goto(w, "ensure_dir")
  /\ UNCHANGED <<BOOKS_BASE, fs, req, loc, result, served, spawned, written, hist>>

\* lines 72-76: verify source exists
CheckSource(w) ==
  /\ pc[w] = "check_source"
  /\ IF ~Exists(fs, loc[w].full_source)
     THEN Return(w, SourceNotFound(loc[w].source_path.s))
     ELSE Goto(w, "ensure_dir")
  /\ UNCHANGED <<BOOKS_BASE, fs, req, loc, result, served, spawned, written, hist>>

\* lines 78-80: os.makedirs(target_dir, exist_ok=True)
EnsureTargetDir(w) ==
  /\ pc[w] = "ensure_dir"
  /\ Enter(w, "ensure_dir")
  /\ LET target_dir == Dirname(loc[w].full_target)
     IN IF MakedirsRaises(fs, target_dir)
        THEN /\ Return(w, MakedirsFault(fs, target_dir))
             /\ fs' = fs
        ELSE /\ fs' = Makedirs(fs, target_dir)
             /\ Goto(w, "build_command")
  /\ UNCHANGED <<BOOKS_BASE, req, loc, result, served, spawned, written>>

\* lines 82-97: the argument vector and the child environment
BuildCommand(w) ==
  /\ pc[w] = "build_command"
  /\ Enter(w, "build_command")
  /\ IF loc[w].options.t # "dict"
     THEN /\ Return(w, OptionsFault)
          /\ loc' = loc
     ELSE /\ loc' = [loc EXCEPT
                       ![w].cmd = WrapCmd(BuildCmd(loc[w].full_source,
                                                   loc[w].full_target,
                                                   loc[w].options),
                                          loc[w].full_target),
                       ![w].env = ChildEnv(OsEnviron, loc[w].full_target)]
          /\ Goto(w, "run_process")
  /\ UNCHANGED <<BOOKS_BASE, fs, req, result, served, spawned, written>>

\* lines 100-106: subprocess.run starts the child, or Popen raises OSError
RunProcess(w) ==
  /\ pc[w] = "run_process"
  /\ Enter(w, "run_process")
  /\ \/ /\ spawned' = [spawned EXCEPT ![w] = @ + 1]
        /\ Goto(w, "running")
     \/ /\ spawned' = spawned
        /\ Return(w, SpawnFault)
  /\ UNCHANGED <<BOOKS_BASE, fs, req, loc, result, served, written>>

\* the running converter writes sz bytes to its output path
ConverterWrite(w) ==
  /\ pc[w] = "running"
  /\ IsDir(fs, Dirname(loc[w].full_target))
  /\ ~IsDir(fs, loc[w].full_target)
  /\ \E sz \in Sizes :
       /\ fs' = WriteFile(fs, loc[w].full_target, sz)
       /\ written' = [written EXCEPT ![w] = sz]
  /\ UNCHANGED <<BOOKS_BASE, pc, req, loc, result, resp, served, spawned, hist>>

\* lines 100-106: the child ends within the timeout; subprocess.run returns
ProcessExit(w) ==
  /\ pc[w] = "running"
  /\ \E rc \in ExitCodes, out \in CapturedOutputs :
       result' = [result EXCEPT ![w] = [returncode |-> rc, stdout |-> out.stdout,
                                        stderr |-> out.stderr, exited |-> TRUE]]
  /\ Goto(w, "check_returncode")
  /\ UNCHANGED <<BOOKS_BASE, fs, req, loc, served, spawned, written, hist>>

\* TimeoutExpired caught by the `except Exception` clause instead
TimeoutExpiredAsFault(w) ==
  /\ pc[w] = "running"
  /\ Enter(w, "classify")
  /\ Return(w, GenericFault("Command timed out after 300 seconds"))
  /\ UNCHANGED <<BOOKS_BASE, fs, req, loc, result, served, spawned, written>>

\* lines 104, 135-138: the child is still running after 300 s; subprocess.run
\* kills it and raises TimeoutExpired
TimeoutExpired(w) ==
  /\ pc[w] = "running"
  /\ Enter(w, "classify")
  /\ Return(w, TimedOut)
  /\ UNCHANGED <<BOOKS_BASE, fs, req, loc, result, served, spawned, written>>

\* lines 108-116
CheckReturnCode(w) ==
  /\ pc[w] = "check_returncode"
  /\ Enter(w, "classify")
  /\ IF result[w].returncode # 0
     THEN Return(w, ConversionFailed(result[w]))
     ELSE Goto(w, "verify_output")
  /\ UNCHANGED <<BOOKS_BASE, fs, req, loc, result, served, spawned, written>>

\* VerifyOutput without the test of line 119
VerifyOutputSkipped(w) ==
  /\ pc[w] = "verify_output"
  /\ Goto(w, "get_size")
  /\ UNCHANGED <<BOOKS_BASE, fs, req, loc, result, served, spawned, written, hist>>

\* lines 118-122
VerifyOutput(w) ==
  /\ pc[w] = "verify_output"
  /\ IF ~Exists(fs, loc[w].full_target)
     THEN Return(w, OutputMissing)
     ELSE Goto(w, "get_size")
  /\ UNCHANGED <<BOOKS_BASE, fs, req, loc, result, served, spawned, written, hist>>

\* ReportSuccess measuring full_source instead of full_target
ReportSuccessOfSource(w) ==
  /\ pc[w] = "get_size"
  /\ IF ~Exists(fs, loc[w].full_source)
     THEN Return(w, GetsizeFault)
     ELSE Return(w, Success(loc[w].source_path.s, loc[w].target_path.s,
                            fs[loc[w].full_source].size))
  /\ UNCHANGED <<BOOKS_BASE, fs, req, loc, result, served, spawned, written, hist>>

\* lines 124-133: os.path.getsize(full_target) and the success response
ReportSuccess(w) ==
  /\ pc[w] = "get_size"
  /\ IF ~Exists(fs, loc[w].full_target)
     THEN Return(w, GetsizeFault)
     ELSE Return(w, Success(loc[w].source_path.s, loc[w].target_path.s,
                            fs[loc[w].full_target].size))
  /\ UNCHANGED <<BOOKS_BASE, fs, req, loc, result, served, spawned, written, hist>>

\* the worker thread is free again and waits for the next request
NextRequest(w) ==
  /\ pc[w] = "done"
  /\ served[w] < MaxRequests
  /\ pc' = [pc EXCEPT ![w] = "idle"]
  /\ req' = [req EXCEPT ![w] = JNull]
  /\ loc' = [loc EXCEPT ![w] = NoLocals]
  /\ result' = [result EXCEPT ![w] = NoResult]
  /\ resp' = [resp EXCEPT ![w] = NoResponse]
  /\ spawned' = [spawned EXCEPT ![w] = 0]
  /\ written' = [written EXCEPT ![w] = NoSize]
  /\ hist' = [hist EXCEPT ![w] = <<>>]
  /\ UNCHANGED <<BOOKS_BASE, fs, served>>

\* one step of convert() in worker w
HandlerStep(w) ==
  \/ Validate(w)
  \/ ResolvePaths(w)
  \/ ListSourceDir(w)
  \/ CheckSource(w)
  \/ EnsureTargetDir(w)
  \/ BuildCommand(w)
  \/ RunProcess(w)
  \/ ProcessExit(w)
  \/ TimeoutExpired(w)
  \/ CheckReturnCode(w)
  \/ VerifyOutput(w)
  \/ ReportSuccess(w)

\* one step of worker w's request: of the handler or of its child process
Step(w) == HandlerStep(w) \/ ConverterWrite(w)

\* ---------------------------------------------------------- specifications
NoEncIn == [full_source |-> <<>>, full_target |-> <<>>, options |-> JObj(<<>>)]

HandlerInit ==
  /\ BOOKS_BASE = DefaultBooksBase
  /\ fs = InitialFs
  /\ pc = [w \in Workers |-> "idle"]
  /\ req = [w \in Workers |-> JNull]
  /\ loc = [w \in Workers |-> NoLocals]
  /\ result = [w \in Workers |-> NoResult]
  /\ resp = [w \in Workers |-> NoResponse]
  /\ served = [w \in Workers |-> 0]
  /\ spawned = [w \in Workers |-> 0]
  /\ written = [w \in Workers |-> NoSize]
  /\ hist = [w \in Workers |-> <<>>]

Init ==
  /\ HandlerInit
  /\ enc_in = NoEncIn
  /\ enc_out = <<>>

\* one worker thread handling requests one after another
Next ==
  /\ \/ Receive("w1")
     \/ Step("w1")
     \/ NextRequest("w1")
  /\ UNCHANGED <<enc_in, enc_out>>

Spec == Init /\ [][Next]_vars

\* the same, with the progress the interpreter and the 300 s timeout give:
\* a started handler keeps running, and subprocess.run returns or raises
\* TimeoutExpired however long the child keeps writing
FairSpec == Spec /\ WF_vars(HandlerStep("w1") /\ UNCHANGED <<enc_in, enc_out>>)

\* two worker threads, each handling one request, interleaved
ConcNext ==
  /\ \E w \in Workers : ReceiveConc(w) \/ Step(w)
  /\ UNCHANGED <<enc_in, enc_out>>

ConcSpec == Init /\ [][ConcNext]_vars

\* ------------------------------------------ the command builder taken alone
EncKeys == {<<"f", "o", "r", "m", "a", "t">>, <<"v", "e", "r", "b", "o", "s", "e">>, <<"k">>}

EncValues ==
  {JStr(<<"e", "p", "u", "b">>), JStr(<<"a", " ", "b">>), JStr(<<>>), JBool(TRUE), JBool(FALSE),
   JNum(1), JNum(10), JNull}

\* option mappings of at most MaxOptions entries, keys distinct
OptionSeqs ==
  {e \in UNION {[1..n -> EncKeys \X EncValues] : n \in 0..MaxOptions} :
     \A i, j \in 1..Len(e) : i # j => e[i][1] # e[j][1]}

EncInputs ==
  [full_source : {<<"/", "b", "o", "o", "k", "s", "/", "a", ".", "e", "p", "u", "b">>, <<"/", "b", "o", "o", "k", "s", "/", "m", "y", " ", "b", "o", "o", "k", ".", "e", "p", "u", "b">>},
   full_target : {<<"/", "b", "o", "o", "k", "s", "/", "b", ".", "p", "d", "f">>, <<"/", "b", "o", "o", "k", "s", "/", "o", "u", "t", " ", "d", "i", "r", "/", "b", ".", "m", "o", "b", "i">>},
   options : {JObj(e) : e \in OptionSeqs}]

EncInit ==
  /\ HandlerInit
  /\ enc_in \in EncInputs
  /\ enc_out = <<>>

\* lines 83-89 applied to enc_in
Encode ==
  /\ enc_out = <<>>
  /\ enc_out' = BuildCmd(enc_in.full_source, enc_in.full_target, enc_in.options)
  /\ UNCHANGED <<enc_in, handlerVars>>

EncNext == Encode

EncSpec == EncInit /\ [][EncNext]_vars

\* ------------------------------------------------------------------ claims
\* the outcome a response stands for, read off its status and message
Outcome(r) ==
  CASE r.status = 400 -> "validation"
    [] r.status = 404 -> "source_missing"
    [] r.status = 504 -> "timeout"
    [] r.status = 200 -> "success"
    [] r.status = 500 /\ r.error = "Conversion failed" -> "conversion_failed"
    [] r.status = 500 /\ r.error = "Conversion completed but output file not found"
         -> "output_missing"
    [] r.status = 500 /\ r.error \notin {"Conversion failed",
           "Conversion completed but output file not found"} -> "generic_fault"
    [] OTHER -> "none"

\* a field of the request body that is absent, null or the empty string
MissingField(body, key) ==
  LET v == Get(body, key, JNull)
  IN v.t = "NoneType" \/ (v.t = "str" /\ v.s = <<>>)

MissingPath(body) ==
  /\ body.t = "dict"
  /\ MissingField(body, <<"s", "o", "u", "r", "c", "e", "_", "p", "a", "t", "h">>) \/ MissingField(body, <<"t", "a", "r", "g", "e", "t", "_", "p", "a", "t", "h">>)

\* both paths of the request body are non-empty strings
BothPathsGiven(body) ==
  /\ body.t = "dict"
  /\ Get(body, <<"s", "o", "u", "r", "c", "e", "_", "p", "a", "t", "h">>, JNull).t = "str"
  /\ Get(body, <<"t", "a", "r", "g", "e", "t", "_", "p", "a", "t", "h">>, JNull).t = "str"
  /\ ~MissingPath(body)

C2_SourceMissingIs404 ==
  \A w \in Workers :
    (pc[w] = "done" /\ BothPathsGiven(req[w])
       /\ ~Exists(fs, Join(BOOKS_BASE, Get(req[w], <<"s", "o", "u", "r", "c", "e", "_", "p", "a", "t", "h">>, JNull).s))) =>
      /\ resp[w].status = 404
      /\ spawned[w] = 0
      /\ \A i \in 1..Len(hist[w]) : hist[w][i] # "ensure_dir"

\* C3 as claimed, where a file is at the target after the run: the child
\* exited zero, so the response is a success whose file_size is the length
\* this request's child wrote.
C3_SizeOfOwnOutput ==
  \A w \in Workers :
    (pc[w] = "done" /\ result[w].exited /\ result[w].returncode = 0
       /\ Exists(fs, loc[w].full_target)) =>
      /\ resp[w].success
      /\ written[w] \in Sizes
      /\ resp[w].file_size = written[w]

\* C3 amended: after an exit status of zero with a file at the resolved
\* target, the response is a success whose file_size is the length of the
\* file found at the target: the length this request's child wrote if it
\* wrote the target, else the length of the file an earlier run left there.
C3_SizeOfFileAtTarget ==
  \A w \in Workers :
    (pc[w] = "done" /\ result[w].exited /\ result[w].returncode = 0
       /\ Exists(fs, loc[w].full_target)) =>
      /\ resp[w].status = 200 /\ resp[w].success
      /\ resp[w].file_size = fs[loc[w].full_target].size
      /\ written[w] # NoSize => resp[w].file_size = written[w]
      /\ resp[w].source_path = Get(req[w], <<"s", "o", "u", "r", "c", "e", "_", "p", "a", "t", "h">>, JNull).s
      /\ resp[w].target_path = Get(req[w], <<"t", "a", "r", "g", "e", "t", "_", "p", "a", "t", "h">>, JNull).s

\* a success reported for a file this request's child never wrote
C3_Witness ==
  \E w \in Workers :
    /\ pc[w] = "done" /\ resp[w].success
    /\ result[w].returncode = 0 /\ written[w] = NoSize
    /\ resp[w].file_size \in Sizes

\* C4: a request that spawned the converter eventually has a response; when
\* the child did not exit before the timeout, the response is the 504 with
\* the timeout message, whatever is at the target path, and exactly one
\* process was run for the request.
C4_TimeoutIs504 ==
  /\ \A w \in Workers : (pc[w] = "running") ~> (pc[w] = "done")
  /\ [](\A w \in Workers :
          (pc[w] = "done" /\ spawned[w] > 0 /\ ~result[w].exited) =>
            /\ resp[w] = TimedOut
            /\ resp[w].error = "Conversion timed out (max 5 minutes)"
            /\ ~resp[w].success
            /\ spawned[w] = 1)

\* a 504 given while a partly written file is at the target
C4_Witness ==
  \E w \in Workers :
    /\ pc[w] = "done" /\ resp[w].status = 504
    /\ written[w] # NoSize /\ Exists(fs, loc[w].full_target)

\* C5: once the child has exited non-zero the target file is never looked
\* at, and the response is the 500 'Conversion failed' carrying the captured
\* stderr as details and the captured stdout as stdout.
C5_NonZeroExitIsConversionFailed ==
  \A w \in Workers :
    (result[w].exited /\ result[w].returncode # 0) =>
      /\ pc[w] \in {"check_returncode", "done"}
      /\ pc[w] = "done" =>
           /\ resp[w].status = 500
           /\ resp[w].error = "Conversion failed"
           /\ resp[w].details = result[w].stderr
           /\ resp[w].stdout = result[w].stdout
           /\ ~resp[w].success

\* a non-zero exit reported while a file is at the target
C5_Witness ==
  \E w \in Workers :
    /\ pc[w] = "done" /\ result[w].exited /\ result[w].returncode # 0
    /\ result[w].stderr = "err"
    /\ Exists(fs, loc[w].full_target)

\* C6: after an exit status of zero the response is OutputMissing exactly
\* when no file is at the resolved target, and a success is only ever
\* reported with the target present and the exit status zero.
C6_OutputMissingIffAbsent ==
  \A w \in Workers :
    /\ (pc[w] = "done" /\ result[w].exited /\ result[w].returncode = 0) =>
         IF Exists(fs, loc[w].full_target)
         THEN Outcome(resp[w]) = "success"
         ELSE resp[w] = OutputMissing
    /\ resp[w].success =>
         /\ Exists(fs, loc[w].full_target)
         /\ result[w].exited /\ result[w].returncode = 0
    /\ Outcome(resp[w]) = "output_missing" =>
         /\ ~Exists(fs, loc[w].full_target)
         /\ result[w].exited /\ result[w].returncode = 0

\* exit status zero, nothing at the target: OutputMissing
C6_Witness ==
  \E w \in Workers :
    /\ pc[w] = "done" /\ result[w].exited /\ result[w].returncode = 0
    /\ ~Exists(fs, loc[w].full_target)
    /\ resp[w].status = 500

\* s ends with the characters of suffix
EndsWith(s, suffix) ==
  /\ Len(s) >= Len(suffix)
  /\ SubSeq(s, Len(s) - Len(suffix) + 1, Len(s)) = suffix

\* the command starts with the display harness, then the converter
Wrapped(cmd) ==
  /\ Len(cmd) >= 4
  /\ SubSeq(cmd, 1, 3) = <<<<"x", "v", "f", "b", "-", "r", "u", "n">>, <<"-", "a">>,
                           <<"-", "-", "s", "e", "r", "v", "e", "r", "-", "a", "r", "g", "s", "=", "-", "s", "c", "r", "e", "e", "n", " ", "0", " ", "1", "0", "2", "4", "x", "7", "6", "8", "x", "2", "4">>>>
  /\ cmd[4] = <<"e", "b", "o", "o", "k", "-", "c", "o", "n", "v", "e", "r", "t">>

SandboxOff(env) ==
  /\ "QTWEBENGINE_CHROMIUM_FLAGS" \in DOMAIN env
  /\ env["QTWEBENGINE_CHROMIUM_FLAGS"] = "--no-sandbox --disable-gpu"
  /\ \A k \in DOMAIN OsEnviron : k \in DOMAIN env /\ env[k] = OsEnviron[k]

\* the command and environment handed to the process runner by worker w
\* are those of a PDF conversion / of any other conversion
RunsUnderDisplay(w) == Wrapped(loc[w].cmd) /\ SandboxOff(loc[w].env)
RunsDirectly(w) == loc[w].cmd[1] = <<"e", "b", "o", "o", "k", "-", "c", "o", "n", "v", "e", "r", "t">> /\ loc[w].env = OsEnviron

\* C7 as claimed: every target path ending in '.pdf', in any letter case,
\* runs under the display harness with the sandbox flags, every other one
\* runs the converter directly with the inherited environment.
C7_EndsInPdf ==
  \A w \in Workers :
    spawned[w] = 1 =>
      IF EndsWith(Lower(loc[w].target_path.s), <<".", "p", "d", "f">>)
      THEN RunsUnderDisplay(w)
      ELSE RunsDirectly(w)

\* the last component of p is a name, not made of dots only, followed by
\* '.pdf' in any letter case
HasPdfExtension(p) ==
  /\ EndsWith(Lower(p), <<".", "p", "d", "f">>)
  /\ \E k \in 1..(Len(p) - 4) :
       /\ p[k] \notin {".", "/"}
       /\ \A j \in k..(Len(p) - 4) : p[j] # "/"

\* C7 amended: a target whose file name has the extension '.pdf' (a name
\* with a character other than '.' before the final '.pdf', any letter case)
\* runs under the display harness with the sandbox flags; every other target,
\* a file named just '.pdf' included, runs the converter directly with the
\* inherited environment.
C7_PdfExtension ==
  \A w \in Workers :
    spawned[w] = 1 =>
      IF HasPdfExtension(loc[w].target_path.s)
      THEN RunsUnderDisplay(w)
      ELSE RunsDirectly(w)

\* an upper-case '.PDF' target running under the display harness
C7_Witness ==
  \E w \in Workers :
    /\ spawned[w] = 1 /\ loc[w].target_path.s = <<"B", ".", "P", "D", "F">>
    /\ Wrapped(loc[w].cmd)

\* number of tokens the claim gives to one options entry
TokensOf(entry) == IF entry[2] = JBool(TRUE) THEN 1 ELSE 2

\* index in the argument vector of the flag token of entry i
RECURSIVE FlagIndex(_, _)
FlagIndex(items, i) ==
  IF i = 1 THEN 4 ELSE FlagIndex(items, i - 1) + TokensOf(items[i - 1])

\* C8: the argument vector is 'ebook-convert', the source, the target, then
\* for each options entry in insertion order '--' + name and, unless the
\* value is the boolean true, one token with the value's string form; the
\* example {"format": "epub", "verbose": true} gives --format epub --verbose.
C8_OptionEncoding ==
  enc_out # <<>> =>
    LET items == enc_in.options.e
        n == Len(items)
    IN /\ SubSeq(enc_out, 1, 3) =
            <<<<"e", "b", "o", "o", "k", "-", "c", "o", "n", "v", "e", "r", "t">>, enc_in.full_source, enc_in.full_target>>
       /\ Len(enc_out) = IF n = 0 THEN 3
                         ELSE FlagIndex(items, n) + TokensOf(items[n]) - 1
       /\ \A i \in 1..n :
            /\ enc_out[FlagIndex(items, i)] = <<"-", "-">> \o items[i][1]
            /\ TokensOf(items[i]) = 2 =>
                 enc_out[FlagIndex(items, i) + 1] = PyStr(items[i][2])
       /\ enc_in.options = ExampleOptions =>
            SubSeq(enc_out, 4, Len(enc_out)) =
              <<<<"-", "-", "f", "o", "r", "m", "a", "t">>, <<"e", "p", "u", "b">>, <<"-", "-", "v", "e", "r", "b", "o", "s", "e">>>>

\* a mapping with a false and a number 1 value was encoded: both have a
\* value token
C8_Witness ==
  /\ enc_out # <<>>
  /\ enc_in.options = JObj(<< <<<<"k">>, JBool(FALSE)>>, <<<<"f", "o", "r", "m", "a", "t">>, JNum(1)>> >>)
  /\ Len(enc_out) = 7

StageOrder ==
  <<"validate", "check_source", "ensure_dir", "build_command", "run_process",
    "classify">>

Outcomes ==
  {"validation", "source_missing", "timeout", "conversion_failed",
   "output_missing", "generic_fault", "success"}

\* the stage in which each outcome is decided
DecidedIn(outcome) ==
  CASE outcome = "validation" -> {"validate"}
    [] outcome = "source_missing" -> {"check_source"}
    [] outcome \in {"timeout", "conversion_failed", "output_missing", "success"}
         -> {"classify"}
    [] outcome = "generic_fault" -> {StageOrder[i] : i \in 1..Len(StageOrder)}

\* C10: the stages of a request are entered in the fixed order; a response
\* exists only when the request has ended and is one of the seven outcomes,
\* decided in its stage; at most one process is spawned, and only after the
\* source was found and the target directory ensured; a response, once
\* given, is not revised.
C10_LinearFlow ==
  /\ [](\A w \in Workers :
          /\ Len(hist[w]) <= Len(StageOrder)
          /\ hist[w] = SubSeq(StageOrder, 1, Len(hist[w]))
          /\ spawned[w] <= 1
          /\ spawned[w] = 1 =>
               /\ Len(hist[w]) >= 5
               /\ Exists(fs, loc[w].full_source)
               /\ IsDir(fs, Dirname(loc[w].full_target))
          /\ pc[w] # "done" => resp[w] = NoResponse
          /\ pc[w] = "done" =>
               /\ Outcome(resp[w]) \in Outcomes
               /\ hist[w][Len(hist[w])] \in DecidedIn(Outcome(resp[w]))
               /\ Outcome(resp[w]) = "generic_fault" =>
                    resp[w].error \notin {"", NoText})
  /\ [][\A w \in Workers :
          (pc[w] = "done" /\ pc'[w] = "done") => resp'[w] = resp[w]]_vars

\* a generic fault raised while building the command, after the target
\* directory was created
C10_Witness ==
  \E w \in Workers :
    /\ pc[w] = "done" /\ resp[w] = OptionsFault
    /\ hist[w] = SubSeq(StageOrder, 1, 4)
    /\ IsDir(fs, <<"/", "b", "o", "o", "k", "s", "/", "d", ".", "p", "d", "f">>)

\* the responses convert() can give to `body` when it is the only request
\* running on filesystem f (the stages of the handler, composed)
AloneResponses(body, f) ==
  IF body.t # "dict" THEN {NullBodyFault}
  ELSE
  LET source_path == Get(body, <<"s", "o", "u", "r", "c", "e", "_", "p", "a", "t", "h">>, JNull)
      target_path == Get(body, <<"t", "a", "r", "g", "e", "t", "_", "p", "a", "t", "h">>, JNull)
      options     == Get(body, <<"o", "p", "t", "i", "o", "n", "s">>, JObj(<<>>))
  IN
  IF ~Truthy(source_path) \/ ~Truthy(target_path) THEN {BadRequest}
  ELSE IF source_path.t # "str" \/ target_path.t # "str" THEN {PathTypeFault}
  ELSE
  LET full_source == Join(DefaultBooksBase, source_path.s)
      full_target == Join(DefaultBooksBase, target_path.s)
      source_dir  == Dirname(full_source)
      target_dir  == Dirname(full_target)
  IN
  IF Exists(f, source_dir) /\ ~IsDir(f, source_dir) THEN {ListdirFault}
  ELSE IF ~Exists(f, full_source) THEN {SourceNotFound(source_path.s)}
  ELSE IF MakedirsRaises(f, target_dir) THEN {MakedirsFault(f, target_dir)}
  ELSE IF options.t # "dict" THEN {OptionsFault}
  ELSE
  LET f1 == Makedirs(f, target_dir)
  IN {SpawnFault, TimedOut}
     \cup {ConversionFailed(out) : out \in CapturedOutputs}
     \cup (IF Exists(f1, full_target)
           THEN {Success(source_path.s, target_path.s, f1[full_target].size)}
           ELSE {OutputMissing})
     \cup (IF IsDir(f1, full_target) THEN {}
           ELSE {Success(source_path.s, target_path.s, sz) : sz \in Sizes})

\* C9 as claimed: whatever the other worker does meanwhile, the response of
\* a request is one it could get running alone on the initial filesystem,
\* and the base directory keeps its value.
C9_ResponseAsIfAlone ==
  /\ BOOKS_BASE = DefaultBooksBase
  /\ \A w \in Workers :
       pc[w] = "done" => resp[w] \in AloneResponses(req[w], InitialFs)

ResolvedSource(body) == Join(DefaultBooksBase, Get(body, <<"s", "o", "u", "r", "c", "e", "_", "p", "a", "t", "h">>, JNull).s)
ResolvedTarget(body) == Join(DefaultBooksBase, Get(body, <<"t", "a", "r", "g", "e", "t", "_", "p", "a", "t", "h">>, JNull).s)

\* the paths a request may create or rewrite: its target, and the
\* directories made for it
Touches(body) ==
  {ResolvedTarget(body)}
    \cup (Ancestors(Dirname(ResolvedTarget(body))) \ DOMAIN InitialFs)

\* the paths whose state a request's response depends on
Observes(body) ==
  {ResolvedSource(body), Dirname(ResolvedSource(body)), ResolvedTarget(body)}
    \cup Ancestors(Dirname(ResolvedTarget(body)))

\* request a may change a path that request b looks at
Interferes(a, b) ==
  /\ BothPathsGiven(a) /\ BothPathsGiven(b)
  /\ Touches(a) \cap Observes(b) # {}

\* C9 amended: the base directory keeps its value, and the response of a
\* request is one it could get running alone on the initial filesystem
\* whenever the concurrent request touches none of the paths it depends on
\* (its source, its source directory, its target, the directories on the way
\* to its target).
C9_IndependentWhenDisjoint ==
  /\ BOOKS_BASE = DefaultBooksBase
  /\ \A w \in Workers :
       (pc[w] = "done" /\ \A v \in Workers \ {w} : ~Interferes(req[v], req[w]))
         => resp[w] \in AloneResponses(req[w], InitialFs)

\* two conversions with disjoint paths ran their children at the same time
\* and both succeeded
C9_Witness ==
  /\ \A w \in Workers : pc[w] = "done" /\ resp[w].success /\ written[w] # NoSize
  /\ \A w \in Workers : \A v \in Workers \ {w} : ~Interferes(req[v], req[w])
  /\ req["w1"] # req["w2"]

====
